---- MODULE Spec2Model ----
(***************************************************************************)
(* Model of the DirectiveManager actor (src/unnamed/part_002, lines 11 to  *)
(* 282): the retention-aware directive store, the emergency lookup, the    *)
(* erasure request with its await on check_erasure_eligibility, the        *)
(* heartbeat sweep and the upgrade hooks.                                  *)
(*                                                                         *)
(* Time is counted in units of one year (365 * 24 * 60 * 60 * 10^9 ns),    *)
(* the common factor of every entry of retentionPolicies; the epoch is the *)
(* oldest created_at a caller sends, and the actor is constructed          *)
(* StartTime years after it.  Every successful store_directive and every   *)
(* emergency_lookup writes an audit line, so the bound on the audit log    *)
(* bounds totalDirectives and emergencyResponsesServed too.  A Float score *)
(* is counted in hundredths (0.7 is 70).  The lines written by Debug.print *)
(* with the prefix "AUDIT:" form the audit log; an entry keeps the kind of *)
(* the line and the patient key it names.                                  *)
(***************************************************************************)
EXTENDS Integers, Sequences, FiniteSets, TLC

(* ------------------------------ bounds --------------------------------- *)
MaxTime == 7
MaxAudit == 3
MaxInflight == 1
MaxMatches == 3
MaxExecutions == 2

(* ------------------------------ inputs --------------------------------- *)
PatientHashes == {<<1>>, <<2>>}
Jurisdictions == {"EU", "US"}
CheckJurisdictions == {"US", "EU", "UK", "CA", "JP"}
RetentionChoices == {5, 7}
ScoreChoices == {69, 70}
DirectiveTypes == {"DNR"}
RecipientIds == {"R001", "R002", "R003"}
CompatibilityChoices == {44, 88}
UrgencyChoices == {1, 2}
ExecutedPatients == {"organ_donor_001", "organ_donor_002"}

(* ------------------------- program constants --------------------------- *)
MinValidity == 70
DefaultRetention == 10
StartTime == 5

(* the created_at values a caller sends: the epoch, or the construction   *)
(* time of the actor                                                      *)
CreatedChoices == {0, StartTime}

ErrRetention == "Retention period exceeds regulatory limits for jurisdiction"
ErrValidity == "Legal validity score too low - requires human review"
ErrNotFound == "No directive found for patient"
ErrExpired == "Directive has exceeded retention period and cannot be accessed"
ErrNotPermitted == "Erasure not permitted - retention period not exceeded"
ErrCallFailed == "Failed to call directive manager"
ErrAnalysis == "analyze_emergency_situation failed"
ErrNotify == "notify_transplant_center failed"
ErrExternal == "process_with_external_llm failed"

VARIABLES directives, directiveEntries, totalDirectives,
          emergencyResponsesServed, audit, now, inflight, last,
          checks, response, ranking, executor, executed, extraction

(* the state of the DirectiveManager actor and what its last call returned *)
managerVars == <<directives, directiveEntries, totalDirectives,
                 emergencyResponsesServed, audit, now, inflight, last>>

(* the emergency_check calls of the emergency bridge that are suspended at *)
(* an await, and what the last call that returned has answered             *)
bridgeVars == <<checks, response>>

(* the candidates register_organ_availability was last given and the order *)
(* it returned                                                             *)
networkVars == <<ranking>>

(* the executor canister: its suspended execute_death_directives calls,    *)
(* the notifications and data releases it has sent, the execution records  *)
(* it has persisted, and what its last call that returned has answered     *)
executorVars == <<executor, executed>>

(* the call of process_medical_directive the LLM canister is serving: the  *)
(* text, the Tier-1 analysis, whether the external model was called and    *)
(* what it answered, and the result returned                               *)
extractorVars == <<extraction>>

vars == <<directives, directiveEntries, totalDirectives,
          emergencyResponsesServed, audit, now, inflight, last,
          checks, response, ranking, executor, executed, extraction>>

(* debug_show of a Blob: the quoted text with one escape per byte *)
debug_show(blob) ==
    IF blob = <<1>> THEN "\"\\01\"" ELSE
    IF blob = <<2>> THEN "\"\\02\"" ELSE "\"\\03\""

(* retentionPolicies.get(j), with the default of the null case *)
retentionPolicies(j) ==
    CASE j = "US" -> 6
      [] j = "EU" -> 5
      [] j = "UK" -> 8
      [] j = "CA" -> 10
      [] OTHER -> DefaultRetention

maxRetention(directive) == retentionPolicies(directive.jurisdiction)

(* put that forgets the other entries *)
MapPut_single(m, k, v) == [x \in {k} |-> v]

(* delete that removes nothing *)
MapDelete_none(m, k) == m

(* HashMap put and delete on a partial function *)
MapPut(m, k, v) == [x \in (DOMAIN m) \cup {k} |-> IF x = k THEN v ELSE m[x]]
MapDelete(m, k) == [x \in (DOMAIN m) \ {k} |-> m[x]]

EmptyMap == [x \in {} |-> 0]

extractEmergencyConditions(directiveType) ==
    CASE directiveType = "DNR" ->
           <<"No resuscitation", "No mechanical ventilation", "Comfort care only">>
      [] directiveType = "ORGAN_DONATION" ->
           <<"Organ harvesting authorized", "Contact organ network",
             "Time-sensitive coordination required">>
      [] directiveType = "DATA_CONSENT" ->
           <<"Research data sharing authorized", "Anonymization required">>
      [] OTHER -> <<"Standard directive conditions apply">>

(* the DirectiveRecord values a caller sends for the patient hash h: the   *)
(* timestamps are the caller's, a directive written at the epoch or at the *)
(* construction of the actor and not updated since                         *)
DirectiveRecords(h) ==
    {[patient_id_hash |-> h,
      directive_type |-> ty,
      directive_content_hash |-> <<170>>,
      created_at |-> c,
      updated_at |-> c,
      retention_period |-> r,
      off_chain_reference |-> "ref",
      signature |-> <<187>>,
      jurisdiction |-> j,
      legal_validity_score |-> sc] :
        ty \in DirectiveTypes, c \in CreatedChoices, r \in RetentionChoices,
        j \in Jurisdictions, sc \in ScoreChoices}

AuditEntry(kind, key) == [kind |-> kind, key |-> key]

(* no call has returned a value to a caller in the last step *)
NoResult == [op |-> "none", key |-> "", res |-> "", age |-> 0, out |-> <<>>]

(* what the call op for key has returned: res is "ok" or the error text,   *)
(* out holds the directive a lookup returned or the record a store wrote,  *)
(* age the age a lookup computed at line 110                               *)
Result(op, key, res, age, out) ==
    [op |-> op, key |-> key, res |-> res, age |-> age, out |-> out]

(* no emergency_check has returned in the last step *)
NoResponse ==
    [patient |-> <<>>, res |-> "", verified |-> FALSE, entries |-> 0,
     analysed |-> FALSE, trace |-> <<>>, out |-> <<>>]

(* no execute_death_directives has returned in the last step *)
NoExecution ==
    [patient |-> "", res |-> "", organ_donation_consent |-> FALSE,
     research_data_consent |-> FALSE, recipient_matches |-> <<>>,
     notified |-> 0, record |-> <<>>]

NoExtraction ==
    [pc |-> "idle", text |-> <<>>, simple |-> <<>>, escalated |-> FALSE,
     reply |-> "", res |-> "", out |-> <<>>]

Init ==
    /\ directiveEntries = EmptyMap
    /\ directives = directiveEntries
    /\ totalDirectives = 0
    /\ emergencyResponsesServed = 0
    /\ audit = <<>>
    /\ now = StartTime
    /\ inflight = {}
    /\ last = NoResult
    /\ checks = {}
    /\ response = NoResponse
    /\ ranking = [all_matches |-> <<>>, sorted |-> <<>>, returned |-> FALSE]
    /\ executor = [runs |-> {}, notifications |-> <<>>, releases |-> <<>>,
                   records |-> <<>>, started |-> 0]
    /\ executed = NoExecution
    /\ extraction = NoExtraction

(* the instants at which the clock is read: the construction of the actor, *)
(* and for every stored jurisdiction the retention deadline of a record    *)
(* created at the epoch and the instant after it                           *)
Instants ==
    {t \in StartTime..MaxTime :
        \/ t = StartTime
        \/ \E j \in Jurisdictions : t \in {retentionPolicies(j), retentionPolicies(j) + 1}}

(* Time.now() advances between messages *)
Tick ==
    /\ \E t \in Instants : t > now
    /\ now' = CHOOSE t \in Instants : t > now /\ \A u \in Instants : u > now => t <= u
    /\ last' = NoResult
    /\ UNCHANGED <<directives, directiveEntries, totalDirectives,
                   emergencyResponsesServed, audit, inflight>>

(* validation that rejects a score equal to the threshold *)
store_result_strict(md) ==
    IF md.retention_period > maxRetention(md) THEN ErrRetention
    ELSE IF md.legal_validity_score <= MinValidity THEN ErrValidity
    ELSE "ok"

(* validation without the score check *)
store_result_noscore(md) ==
    IF md.retention_period > maxRetention(md) THEN ErrRetention
    ELSE "ok"

store_result(md) ==
    IF md.retention_period > maxRetention(md) THEN ErrRetention
    ELSE IF md.legal_validity_score < MinValidity THEN ErrValidity
    ELSE "ok"

store_directive(h, md) ==
    LET patient_key == debug_show(h)
        res == store_result(md)
    IN /\ Len(audit) < MaxAudit
       /\ IF res = "ok"
          THEN /\ directives' = MapPut(directives, patient_key, md)
               /\ totalDirectives' = totalDirectives + 1
               /\ audit' = Append(audit, AuditEntry("WRITE", patient_key))
          ELSE UNCHANGED <<directives, totalDirectives, audit>>
       /\ last' = Result("store_directive", patient_key, res, 0,
                          IF res = "ok" THEN <<md>> ELSE <<>>)
       /\ UNCHANGED <<directiveEntries, emergencyResponsesServed, now, inflight>>

(* response that also hands out the reference of the stored content *)
EmergencyDirective_leaky(directive, currentTime) ==
    [directive_type |-> directive.directive_type,
     details |-> <<"Directive verified on-chain - ", directive.off_chain_reference,
                   " conditions apply">>,
     confidence_score |-> directive.legal_validity_score,
     timestamp |-> currentTime,
     legal_validity |-> directive.legal_validity_score,
     emergency_conditions |-> extractEmergencyConditions(directive.directive_type)]

(* the EmergencyDirective built at lines 124 to 131 *)
EmergencyDirective(directive, currentTime) ==
    [directive_type |-> directive.directive_type,
     details |-> <<"Directive verified on-chain - ", directive.directive_type,
                   " conditions apply">>,
     confidence_score |-> directive.legal_validity_score,
     timestamp |-> currentTime,
     legal_validity |-> directive.legal_validity_score,
     emergency_conditions |-> extractEmergencyConditions(directive.directive_type)]

(* retention check against the default bound, whatever the jurisdiction *)
lookup_result_default(directive, currentTime) ==
    LET age == currentTime - directive.created_at
    IN IF age > DefaultRetention THEN ErrExpired ELSE "ok"

(* lookup that writes its audit line only when it returns a directive *)
emergency_lookup_quiet(h) ==
    LET patient_key == debug_show(h)
    IN /\ Len(audit) < MaxAudit
       /\ IF patient_key \notin DOMAIN directives
          THEN /\ last' = Result("emergency_lookup", patient_key, ErrNotFound, 0, <<>>)
               /\ UNCHANGED <<emergencyResponsesServed, audit>>
          ELSE LET directive == directives[patient_key]
                   age == now - directive.created_at
               IN IF age > maxRetention(directive)
                  THEN /\ last' = Result("emergency_lookup", patient_key,
                                         ErrExpired, age, <<>>)
                       /\ UNCHANGED <<emergencyResponsesServed, audit>>
                  ELSE /\ emergencyResponsesServed' = emergencyResponsesServed + 1
                       /\ audit' = Append(audit, AuditEntry("EMERGENCY", patient_key))
                       /\ last' = Result("emergency_lookup", patient_key, "ok", age,
                                         <<EmergencyDirective(directive, now)>>)
       /\ UNCHANGED <<directives, directiveEntries, totalDirectives, now, inflight>>

(* lines 109 to 118: the retention check on the record found *)
lookup_result(directive, currentTime) ==
    LET age == currentTime - directive.created_at
    IN IF age > maxRetention(directive) THEN ErrExpired ELSE "ok"

emergency_lookup(h) ==
    LET patient_key == debug_show(h)
        startTime == now
    IN /\ Len(audit) < MaxAudit
       /\ audit' = Append(audit, AuditEntry("EMERGENCY", patient_key))
       /\ IF patient_key \notin DOMAIN directives
          THEN /\ last' = Result("emergency_lookup", patient_key, ErrNotFound, 0, <<>>)
               /\ UNCHANGED emergencyResponsesServed
          ELSE LET directive == directives[patient_key]
                   currentTime == now
                   age == currentTime - directive.created_at
               IN IF lookup_result(directive, currentTime) = ErrExpired
                  THEN /\ last' = Result("emergency_lookup", patient_key,
                                         ErrExpired, age, <<>>)
                       /\ UNCHANGED emergencyResponsesServed
                  ELSE /\ emergencyResponsesServed' = emergencyResponsesServed + 1
                       /\ last' = Result("emergency_lookup", patient_key, "ok", age,
                                         <<EmergencyDirective(directive, currentTime)>>)
       /\ UNCHANGED <<directives, directiveEntries, totalDirectives, now, inflight>>

(* eligibility decided by the retention of the jurisdiction given *)
check_erasure_eligibility_any(m, patient_key, jurisdiction, t) ==
    IF patient_key \notin DOMAIN m THEN ErrNotFound
    ELSE LET age == t - m[patient_key].created_at
             retentionPeriod == retentionPolicies(jurisdiction)
         IN IF age > retentionPeriod THEN "true" ELSE "false"

(* the value returned by check_erasure_eligibility on the map m at time t *)
check_erasure_eligibility(m, patient_key, jurisdiction, t) ==
    IF patient_key \notin DOMAIN m THEN ErrNotFound
    ELSE IF jurisdiction = "EU"
         THEN LET age == t - m[patient_key].created_at
                  retentionPeriod == retentionPolicies("EU")
              IN IF age > retentionPeriod THEN "true" ELSE "false"
         ELSE "false"

(* process_erasure_request up to its await (lines 206 to 212); a call in   *)
(* flight holds what the suspended request still reads: the key, and the   *)
(* jurisdiction until the awaited call has been sent its argument          *)
erasure_begin(h) ==
    LET patient_key == debug_show(h)
    IN IF patient_key \notin DOMAIN directives
       THEN /\ last' = Result("process_erasure_request", patient_key,
                              ErrNotFound, 0, <<>>)
            /\ UNCHANGED <<directives, directiveEntries, totalDirectives,
                           emergencyResponsesServed, audit, now, inflight>>
       ELSE LET call == [key |-> patient_key,
                         jurisdiction |-> directives[patient_key].jurisdiction,
                         stage |-> "called", reply |-> ""]
            IN /\ Cardinality(inflight) < MaxInflight
               /\ call \notin inflight
               /\ inflight' = inflight \cup {call}
               /\ last' = NoResult
               /\ UNCHANGED <<directives, directiveEntries, totalDirectives,
                              emergencyResponsesServed, audit, now>>

(* the awaited check_erasure_eligibility message runs (line 212) *)
erasure_check(call) ==
    /\ call \in inflight
    /\ call.stage = "called"
    /\ LET reply == check_erasure_eligibility(directives, call.key,
                                              call.jurisdiction, now)
       IN /\ inflight' = (inflight \ {call})
                           \cup {[call EXCEPT !.stage = "replied", !.reply = reply,
                                               !.jurisdiction = ""]}
          /\ last' = NoResult
    /\ UNCHANGED <<directives, directiveEntries, totalDirectives,
                   emergencyResponsesServed, audit, now>>

(* process_erasure_request after its await (lines 214 to 230) *)
erasure_finish(call) ==
    /\ call \in inflight
    /\ call.stage = "replied"
    /\ inflight' = inflight \ {call}
    /\ IF call.reply = "true"
       THEN /\ Len(audit) < MaxAudit
            /\ directives' = MapDelete(directives, call.key)
            /\ audit' = Append(audit, AuditEntry("ERASE", call.key))
            /\ last' = Result("process_erasure_request", call.key, "ok", 0, <<>>)
       ELSE /\ last' = Result("process_erasure_request", call.key,
                              IF call.reply = "false" THEN ErrNotPermitted
                              ELSE call.reply, 0, <<>>)
            /\ UNCHANGED <<directives, audit>>
    /\ UNCHANGED <<directiveEntries, totalDirectives, emergencyResponsesServed, now>>

(* collection that also takes the records whose age equals the bound *)
expiredKeys_eager(m, currentTime) ==
    {key \in DOMAIN m : currentTime - m[key].created_at >= maxRetention(m[key])}

(* the keys heartbeat collects at lines 263 to 274 *)
expiredKeys(m, currentTime) ==
    {key \in DOMAIN m : currentTime - m[key].created_at > maxRetention(m[key])}

(* the orders in which the entries of a HashMap can be visited *)
Orders(S) ==
    {s \in [1..Cardinality(S) -> S] : \A i, j \in 1..Cardinality(S) : s[i] = s[j] => i = j}

(* heartbeat that collects nothing *)
heartbeat_idle ==
    /\ last' = Result("heartbeat", "", "", 0, <<>>)
    /\ UNCHANGED <<directives, directiveEntries, totalDirectives,
                   emergencyResponsesServed, audit, now, inflight>>

heartbeat ==
    LET currentTime == now
        expired == expiredKeys(directives, currentTime)
    IN /\ Len(audit) + Cardinality(expired) <= MaxAudit
       /\ directives' = [key \in (DOMAIN directives) \ expired |-> directives[key]]
       /\ \E order \in Orders(expired) :
             audit' = audit \o [i \in 1..Len(order) |-> AuditEntry("EXPIRED", order[i])]
       /\ last' = Result("heartbeat", "", "", 0, <<>>)
       /\ UNCHANGED <<directiveEntries, totalDirectives, emergencyResponsesServed,
                      now, inflight>>

(* upgrade that starts a new audit log *)
upgrade_forgetful ==
    LET saved == directives
    IN /\ inflight = {}
       /\ directives' = saved
       /\ directiveEntries' = EmptyMap
       /\ last' = NoResult
       /\ audit' = <<>>
       /\ UNCHANGED <<totalDirectives, emergencyResponsesServed, now, inflight>>

(* preupgrade, re-initialisation of the actor from directiveEntries, postupgrade *)
upgrade ==
    LET saved == directives
    IN /\ inflight = {}
       /\ directives' = saved
       /\ directiveEntries' = EmptyMap
       /\ last' = NoResult
       /\ UNCHANGED <<totalDirectives, emergencyResponsesServed, audit, now, inflight>>

Next ==
    \/ Tick /\ UNCHANGED <<bridgeVars, networkVars, executorVars, extractorVars>>
    \/ \E h \in PatientHashes : \E md \in DirectiveRecords(h) :
          store_directive(h, md) /\ UNCHANGED <<bridgeVars, networkVars, executorVars, extractorVars>>
    \/ \E h \in PatientHashes : emergency_lookup(h) /\ UNCHANGED <<bridgeVars, networkVars, executorVars, extractorVars>>
    \/ \E h \in PatientHashes : erasure_begin(h) /\ UNCHANGED <<bridgeVars, networkVars, executorVars, extractorVars>>
    \/ \E call \in inflight : erasure_check(call) /\ UNCHANGED <<bridgeVars, networkVars, executorVars, extractorVars>>
    \/ \E call \in inflight : erasure_finish(call) /\ UNCHANGED <<bridgeVars, networkVars, executorVars, extractorVars>>
    \/ heartbeat /\ UNCHANGED <<bridgeVars, networkVars, executorVars, extractorVars>>
    \/ upgrade /\ UNCHANGED <<bridgeVars, networkVars, executorVars, extractorVars>>

Spec == Init /\ [][Next]_vars

(* the bounded audit log has room for the entries of a sweep of every      *)
(* stored record                                                           *)
Room == Len(audit) + Cardinality(DOMAIN directives) <= MaxAudit

(* the heartbeat of the actor, which the system calls in every round *)
Sweep == heartbeat /\ UNCHANGED <<bridgeVars, networkVars, executorVars, extractorVars>>

(* the steps of the actor that keep that room, with the heartbeat called   *)
(* again and again                                                         *)
NextSweep ==
    \/ Tick /\ UNCHANGED <<bridgeVars, networkVars, executorVars, extractorVars>>
    \/ \E h \in PatientHashes : \E md \in DirectiveRecords(h) :
          store_directive(h, md) /\ Room'
             /\ UNCHANGED <<bridgeVars, networkVars, executorVars, extractorVars>>
    \/ \E h \in PatientHashes :
          emergency_lookup(h) /\ Room'
             /\ UNCHANGED <<bridgeVars, networkVars, executorVars, extractorVars>>
    \/ \E h \in PatientHashes : erasure_begin(h) /\ UNCHANGED <<bridgeVars, networkVars, executorVars, extractorVars>>
    \/ \E call \in inflight : erasure_check(call) /\ UNCHANGED <<bridgeVars, networkVars, executorVars, extractorVars>>
    \/ \E call \in inflight :
          erasure_finish(call) /\ Room'
             /\ UNCHANGED <<bridgeVars, networkVars, executorVars, extractorVars>>
    \/ Sweep

SpecSweep == Init /\ [][NextSweep]_vars /\ WF_vars(Sweep)

(* the records of the patients that hold directives of several types: the  *)
(* accepted records above, under each type of extractEmergencyConditions   *)
TypedRecords(h) ==
    {[md EXCEPT !.directive_type = ty] :
        md \in {record \in DirectiveRecords(h) : store_result(record) = "ok"},
        ty \in {"DNR", "ORGAN_DONATION", "DATA_CONSENT"}}

NextTypes ==
    \/ Tick /\ UNCHANGED <<bridgeVars, networkVars, executorVars, extractorVars>>
    \/ \E h \in PatientHashes : \E md \in TypedRecords(h) :
          store_directive(h, md) /\ UNCHANGED <<bridgeVars, networkVars, executorVars, extractorVars>>
    \/ \E h \in PatientHashes : emergency_lookup(h) /\ UNCHANGED <<bridgeVars, networkVars, executorVars, extractorVars>>
    \/ heartbeat /\ UNCHANGED <<bridgeVars, networkVars, executorVars, extractorVars>>

SpecTypes == Init /\ [][NextTypes]_vars

(* ------------------------- emergency bridge ---------------------------- *)

(* the number of audit entries of kind EMERGENCY for key in the log *)
EmergencyEntries(log, key) ==
    Cardinality({i \in 1..Len(log) : log[i] = AuditEntry("EMERGENCY", key)})

(* what emergency_check returns: the response or the error text, with the  *)
(* record of the call that produced it                                     *)
Response(check, res, state, out) ==
    [patient |-> check.patient, res |-> res, verified |-> check.verified,
     entries |-> check.entries, analysed |-> check.analysed,
     trace |-> Append(check.trace, state), out |-> out]

(* emergency_check is called and suspends at the await of                  *)
(* verify_hospital_signature, which has sent sign_with_ecdsa the hash of   *)
(* patient_id, hospital_id and situation                                   *)
emergency_check(h) ==
    LET check == [patient |-> h, pc |-> "signing", verified |-> FALSE,
                  reply |-> "", entries |-> 0, analysed |-> FALSE,
                  directive |-> <<>>, trace |-> <<"RECEIVED">>]
    IN /\ Cardinality(checks) < MaxInflight
       /\ check \notin checks
       /\ checks' = checks \cup {check}
       /\ response' = NoResponse
       /\ last' = NoResult
       /\ UNCHANGED <<directives, directiveEntries, totalDirectives,
                      emergencyResponsesServed, audit, now, inflight>>

(* sign_with_ecdsa answers: Ok(_) gives Ok(true), Err(_) gives Ok(false);  *)
(* the ? of emergency_check passes either on, and the call goes on to      *)
(* get_patient_directive without reading the value                         *)
verify_hospital_signature(check, signed) ==
    /\ check.pc = "signing"
    /\ checks' = (checks \ {check}) \cup
          {[check EXCEPT !.pc = "fetching",
                         !.verified = signed,
                         !.trace = IF signed
                                   THEN Append(check.trace, "AUTHENTICATED")
                                   ELSE check.trace]}
    /\ response' = NoResponse
    /\ last' = NoResult
    /\ UNCHANGED <<directives, directiveEntries, totalDirectives,
                   emergencyResponsesServed, audit, now, inflight>>

(* the directive manager runs the emergency_lookup that                    *)
(* get_patient_directive has called                                        *)
get_patient_directive(check) ==
    LET key == debug_show(check.patient)
    IN /\ check.pc = "fetching"
       /\ emergency_lookup(check.patient)
       /\ checks' = (checks \ {check}) \cup
             {[check EXCEPT !.pc = "fetched",
                            !.reply = last'.res,
                            !.directive = last'.out,
                            !.entries = check.entries
                                + EmergencyEntries(audit', key)
                                - EmergencyEntries(audit, key)]}
       /\ response' = NoResponse

(* the call of emergency_lookup does not reach the directive manager *)
call_rejected(check) ==
    /\ check.pc = "fetching"
    /\ checks' = (checks \ {check}) \cup
          {[check EXCEPT !.pc = "fetched", !.reply = ErrCallFailed]}
    /\ response' = NoResponse
    /\ last' = NoResult
    /\ UNCHANGED <<directives, directiveEntries, totalDirectives,
                   emergencyResponsesServed, audit, now, inflight>>

(* get_patient_directive resumes with the reply: an error returns from     *)
(* emergency_check through the ? operator, a directive goes on to          *)
(* analyze_emergency_situation                                             *)
directive_reply(check) ==
    /\ check.pc = "fetched"
    /\ IF check.reply = "ok"
       THEN /\ checks' = (checks \ {check}) \cup
                  {[check EXCEPT !.pc = "analyzing",
                                 !.trace = Append(check.trace, "RESOLVED")]}
            /\ response' = NoResponse
       ELSE /\ checks' = checks \ {check}
            /\ response' = Response(check, check.reply, "REJECTED", <<>>)
    /\ last' = NoResult
    /\ UNCHANGED <<directives, directiveEntries, totalDirectives,
                   emergencyResponsesServed, audit, now, inflight>>

(* analyze_emergency_situation answers; an error returns from              *)
(* emergency_check through the ? operator                                  *)
analyze_emergency_situation(check, ok) ==
    LET seen == [check EXCEPT !.analysed = TRUE]
    IN /\ check.pc = "analyzing"
       /\ IF ok
          THEN /\ checks' = (checks \ {check})
                               \cup {[seen EXCEPT !.pc = "alerting"]}
               /\ response' = NoResponse
          ELSE /\ checks' = checks \ {check}
               /\ response' = Response(seen, ErrAnalysis, "REJECTED", <<>>)
       /\ last' = NoResult
       /\ UNCHANGED <<directives, directiveEntries, totalDirectives,
                      emergencyResponsesServed, audit, now, inflight>>

(* send_emergency_alert answers Ok and emergency_check returns the         *)
(* EmergencyResponse                                                       *)
send_emergency_alert(check) ==
    /\ check.pc = "alerting"
    /\ checks' = checks \ {check}
    /\ response' = Response(check, "ok", "LOGGED",
                            <<check.directive[1].directive_type>>)
    /\ last' = NoResult
    /\ UNCHANGED <<directives, directiveEntries, totalDirectives,
                   emergencyResponsesServed, audit, now, inflight>>

(* the records the patients of the emergency scenarios hold *)
BridgeRecords(h) ==
    {md \in DirectiveRecords(h) : store_result(md) = "ok"}

NextBridge ==
    \/ Tick /\ UNCHANGED <<bridgeVars, networkVars, executorVars, extractorVars>>
    \/ \E h \in PatientHashes : \E md \in BridgeRecords(h) :
          store_directive(h, md) /\ UNCHANGED <<bridgeVars, networkVars, executorVars, extractorVars>>
    \/ \E h \in PatientHashes : emergency_check(h) /\ UNCHANGED <<networkVars, executorVars, extractorVars>>
    \/ \E check \in checks : \E signed \in BOOLEAN :
          verify_hospital_signature(check, signed) /\ UNCHANGED <<networkVars, executorVars, extractorVars>>
    \/ \E check \in checks :
          get_patient_directive(check) /\ UNCHANGED <<networkVars, executorVars, extractorVars>>
    \/ \E check \in checks : call_rejected(check) /\ UNCHANGED <<networkVars, executorVars, extractorVars>>
    \/ \E check \in checks : directive_reply(check) /\ UNCHANGED <<networkVars, executorVars, extractorVars>>
    \/ \E check \in checks : \E ok \in BOOLEAN :
          analyze_emergency_situation(check, ok) /\ UNCHANGED <<networkVars, executorVars, extractorVars>>
    \/ \E check \in checks :
          send_emergency_alert(check) /\ UNCHANGED <<networkVars, executorVars, extractorVars>>

SpecBridge == Init /\ [][NextBridge]_vars

(* --------------------------- organ network ----------------------------- *)

(* the RecipientMatch values find_recipients_for_organ may return; a       *)
(* compatibility_score is counted in hundredths                            *)
RecipientMatches ==
    [recipient_id : RecipientIds,
     compatibility_score : CompatibilityChoices,
     urgency_level : UrgencyChoices,
     distance_km : {50},
     transplant_center : {"Mayo Clinic"}]

(* the key of the comparison of sort_by: compatibility_score times         *)
(* urgency_level as f32; the products of the scores here are exact         *)
sort_key(m) == m.compatibility_score * m.urgency_level

(* a slot of the sorted prefix at which a new element may not go: an       *)
(* element that the comparison does not put after the new one              *)
keeps_place_unstable(placed, m) == sort_key(placed) > sort_key(m)

keeps_place(placed, m) == sort_key(placed) >= sort_key(m)

RECURSIVE insert_sorted(_, _)
(* m put into the sorted sequence after every element that keeps its place *)
insert_sorted(sorted, m) ==
    IF sorted = <<>> THEN <<m>>
    ELSE IF keeps_place(Head(sorted), m)
         THEN <<Head(sorted)>> \o insert_sorted(Tail(sorted), m)
         ELSE <<m>> \o sorted

RECURSIVE sort_by(_)
(* all_matches.sort_by(|a, b| key(b).partial_cmp(key(a))): a stable sort,  *)
(* descending in the key                                                   *)
sort_by(all_matches) ==
    IF all_matches = <<>> THEN <<>>
    ELSE insert_sorted(sort_by(SubSeq(all_matches, 1, Len(all_matches) - 1)),
                       all_matches[Len(all_matches)])

(* the loop of register_organ_availability extends all_matches by a match *)
(* that find_recipients_for_organ has returned                             *)
find_recipients_for_organ(m) ==
    /\ ~ranking.returned
    /\ Len(ranking.all_matches) < MaxMatches
    /\ ranking' = [ranking EXCEPT !.all_matches = Append(@, m)]
    /\ UNCHANGED <<managerVars, bridgeVars, executorVars, extractorVars>>

(* register_organ_availability sorts the matches of all organs and returns *)
register_organ_availability ==
    /\ ~ranking.returned
    /\ ranking' = [ranking EXCEPT !.sorted = sort_by(ranking.all_matches),
                                  !.returned = TRUE]
    /\ UNCHANGED <<managerVars, bridgeVars, executorVars, extractorVars>>

NextNetwork ==
    \/ \E m \in RecipientMatches : find_recipients_for_organ(m)
    \/ register_organ_availability

SpecNetwork == Init /\ [][NextNetwork]_vars

(* ----------------------------- executor AI ----------------------------- *)

(* the matches find_recipients_for_organ returns for an organ *)
FoundMatches ==
    <<[recipient_id |-> "R001", compatibility_score |-> 95, urgency_level |-> 1,
       distance_km |-> 50, transplant_center |-> "Mayo Clinic"],
      [recipient_id |-> "R002", compatibility_score |-> 88, urgency_level |-> 2,
       distance_km |-> 120, transplant_center |-> "Johns Hopkins"]>>

(* what execute_death_directives returns, with the consents, the matches   *)
(* it had selected and the number of them it had notified                  *)
Execution(run, res, record) ==
    [patient |-> run.patient, res |-> res,
     organ_donation_consent |-> run.organ_donation_consent,
     research_data_consent |-> run.research_data_consent,
     recipient_matches |-> run.recipient_matches,
     notified |-> run.notified, record |-> record]

(* the ExecutionResult of a run that has reached its end *)
ExecutionResult(run, t) ==
    [patient_id |-> run.patient,
     organ_donation_executed |-> run.organ_donation_consent,
     recipient_matches |-> run.recipient_matches,
     data_sharing_executed |-> run.research_data_consent,
     execution_timestamp |-> t]

(* the run moved to the step it suspends at next *)
Suspend(run, next) ==
    /\ executor' = [executor EXCEPT !.runs = (@ \ {run}) \cup {next}]
    /\ executed' = NoExecution

(* the step after the organ donation: data sharing if consented, else the  *)
(* execution record                                                        *)
AfterOrganDonation(run) ==
    IF run.research_data_consent THEN "sharing" ELSE "recording"

(* execute_death_directives is called and suspends at the await of         *)
(* verify_death_certificate                                                *)
execute_death_directives(patient_id) ==
    LET run == [patient |-> patient_id, pc |-> "verifying",
                organ_donation_consent |-> FALSE,
                research_data_consent |-> FALSE,
                recipient_matches |-> <<>>, notified |-> 0]
    IN /\ executor.started < MaxExecutions
       /\ Cardinality(executor.runs) < MaxInflight
       /\ run \notin executor.runs
       /\ executor' = [executor EXCEPT !.runs = @ \cup {run},
                                       !.started = @ + 1]
       /\ executed' = NoExecution
       /\ UNCHANGED <<managerVars, bridgeVars, networkVars, extractorVars>>

(* verify_death_certificate answers; its value is bound and not read *)
verify_death_certificate(run) ==
    /\ run.pc = "verifying"
    /\ Suspend(run, [run EXCEPT !.pc = "loading"])
    /\ UNCHANGED <<managerVars, bridgeVars, networkVars, extractorVars>>

(* get_all_patient_directives answers with the consents of the patient *)
get_all_patient_directives(run, organ, research) ==
    LET loaded == [run EXCEPT !.organ_donation_consent = organ,
                              !.research_data_consent = research]
    IN /\ run.pc = "loading"
       /\ Suspend(run, [loaded EXCEPT !.pc = IF organ THEN "matching"
                                             ELSE AfterOrganDonation(loaded)])
       /\ UNCHANGED <<managerVars, bridgeVars, networkVars, extractorVars>>

(* execute_organ_donation: assess_organ_viability and                      *)
(* find_optimal_recipients answer with the ranked matches                  *)
find_optimal_recipients(run) ==
    /\ run.pc = "matching"
    /\ Suspend(run, [run EXCEPT !.pc = "notifying",
                                !.recipient_matches = sort_by(FoundMatches)])
    /\ UNCHANGED <<managerVars, bridgeVars, networkVars, extractorVars>>

(* notify_transplant_center answers for the next match of the loop; an     *)
(* error returns from execute_organ_donation and from                      *)
(* execute_death_directives through the ? operator                         *)
notify_transplant_center(run, ack) ==
    LET target == run.recipient_matches[run.notified + 1]
        sent == [executor EXCEPT !.notifications =
                    Append(@, [patient |-> run.patient,
                               recipient_id |-> target.recipient_id,
                               ack |-> ack])]
        next == [run EXCEPT !.notified = @ + 1]
    IN /\ run.pc = "notifying"
       /\ run.notified < Len(run.recipient_matches)
       /\ IF ack
          THEN /\ executor' = [sent EXCEPT !.runs = (@ \ {run}) \cup
                     {IF next.notified = Len(run.recipient_matches)
                      THEN [next EXCEPT !.pc = AfterOrganDonation(run)]
                      ELSE next}]
               /\ executed' = NoExecution
          ELSE /\ executor' = [sent EXCEPT !.runs = @ \ {run}]
               /\ executed' = Execution(run, ErrNotify, <<>>)
       /\ UNCHANGED <<managerVars, bridgeVars, networkVars, extractorVars>>

(* execute_data_sharing answers: the data of the patient has been released *)
execute_data_sharing(run) ==
    /\ run.pc = "sharing"
    /\ executor' = [executor EXCEPT
          !.runs = (@ \ {run}) \cup {[run EXCEPT !.pc = "recording"]},
          !.releases = Append(@, run.patient)]
    /\ executed' = NoExecution
    /\ UNCHANGED <<managerVars, bridgeVars, networkVars, extractorVars>>

(* create_execution_audit_log persists the record and                      *)
(* execute_death_directives returns it                                     *)
create_execution_audit_log(run) ==
    LET record == ExecutionResult(run, now)
    IN /\ run.pc = "recording"
       /\ executor' = [executor EXCEPT !.runs = @ \ {run},
                                       !.records = Append(@, record)]
       /\ executed' = Execution(run, "ok", <<record>>)
       /\ UNCHANGED <<managerVars, bridgeVars, networkVars, extractorVars>>

NextExecutor ==
    \/ Tick /\ UNCHANGED <<bridgeVars, networkVars, executor, extractorVars>>
            /\ executed' = NoExecution
    \/ \E patient_id \in ExecutedPatients : execute_death_directives(patient_id)
    \/ \E run \in executor.runs : verify_death_certificate(run)
    \/ \E run \in executor.runs : \E organ, research \in BOOLEAN :
          get_all_patient_directives(run, organ, research)
    \/ \E run \in executor.runs : find_optimal_recipients(run)
    \/ \E run \in executor.runs : \E ack \in BOOLEAN :
          notify_transplant_center(run, ack)
    \/ \E run \in executor.runs : execute_data_sharing(run)
    \/ \E run \in executor.runs : create_execution_audit_log(run)

SpecExecutor == Init /\ [][NextExecutor]_vars

(* -------------------------- directive extractor ------------------------ *)
(* The LLM canister.  An f32 between 1/16 and 4, or zero, is counted in    *)
(* units of 2^-27, of which every such value is a whole multiple; the      *)
(* operations round to 24 significant bits, ties to even, as IEEE 754      *)
(* single precision does.                                                  *)

(* 1.0 *)
One == 134217728

(* 0.0 / 0.0 *)
NaN == -1

(* the distance between neighbouring f32 values at v *)
ulp(v) ==
    IF v < 16777216 THEN 1
    ELSE IF v < 33554432 THEN 2
    ELSE IF v < 67108864 THEN 4
    ELSE IF v < 134217728 THEN 8
    ELSE IF v < 268435456 THEN 16
    ELSE 32

(* p / d rounded to the nearest whole number, ties to even *)
round_even(p, d) ==
    LET q == p \div d
        r == p % d
    IN  IF 2 * r < d THEN q
        ELSE IF 2 * r > d THEN q + 1
        ELSE IF q % 2 = 0 THEN q ELSE q + 1

(* sig + r / d rounded to the nearest whole number, ties to even *)
round_up(sig, r, d) ==
    IF 2 * r < d THEN sig
    ELSE IF 2 * r > d THEN sig + 1
    ELSE IF sig % 2 = 0 THEN sig ELSE sig + 1

(* the f32 a decimal literal n / d below 1 is read as *)
f32(n, d) ==
    LET u == ulp(((n * 8388608) \div d) * 16)
    IN  u * round_even(n * (One \div u), d)

(* a / n for an f32 a and a count n: total / directives.len() as f32 *)
f32_div(a, n) ==
    IF n = 0 THEN NaN
    ELSE LET u == ulp(a \div n) IN u * round_even(a, n * u)

(* a + b *)
f32_add(a, b) ==
    LET u == ulp(a + b) IN u * round_even(a + b, u)

(* a * b for a and b of at least 1/16: the exact product of the two 24-bit *)
(* significands, taken in 12-bit limbs, rounded to 24 bits                 *)
f32_mul(a, b) ==
    LET ua == ulp(a)
        ub == ulp(b)
        sa == a \div ua
        sb == b \div ub
        ah == sa \div 4096
        al == sa % 4096
        bh == sb \div 4096
        bl == sb % 4096
        mid == ah * bl + al * bh
        rest == (mid % 4096) * 4096 + al * bl
        hi == ah * bh + mid \div 4096 + rest \div 16777216
        lo == rest % 16777216
    IN  IF hi >= 8388608
        THEN round_up(hi, lo, 16777216) * ((ua * ub) \div 8)
        ELSE round_up(2 * hi + lo \div 8388608, lo % 8388608, 8388608)
                * ((ua * ub) \div 16)

(* a < b and a > b, both false when a is not a number *)
f32_lt(a, b) == a # NaN /\ a < b

f32_gt(a, b) == a # NaN /\ a > b

(* the directive types of MedicalNLPProcessor::new and the number of       *)
(* keywords each has                                                       *)
DirectiveKinds == {"DNR", "ORGAN_DONATION", "DATA_CONSENT"}

medical_keywords(directive_type) ==
    CASE directive_type = "DNR" -> 6
      [] directive_type = "ORGAN_DONATION" -> 8
      [] directive_type = "DATA_CONSENT" -> 5

confidence_thresholds(directive_type) ==
    CASE directive_type = "DNR" -> f32(85, 100)
      [] directive_type = "ORGAN_DONATION" -> f32(80, 100)
      [] directive_type = "DATA_CONSENT" -> f32(75, 100)
      [] OTHER -> f32(7, 10)

(* text.len() > 1000 is the length gate *)
MaxTextLength == 1000

LengthChoices == {MaxTextLength, MaxTextLength + 1}

(* A directive text, as far as the extractor reads it: how many keywords   *)
(* of each type it contains, its length, whether it contains one of the    *)
(* complex medical terms, and the two patterns of extract_simple_patterns: *)
(* dnr is "do not resuscitate" or "dnr", donate is "donate" together with  *)
(* "organ" or "kidney".  Both dnr phrases are DNR keywords, so a text      *)
(* without them has at most 4 of the 6; every ORGAN_DONATION keyword but   *)
(* "liver", "heart", "cornea", "tissue donation", "donate my" and one of   *)
(* "kidney" and "organ donation" needs the donate pattern.                 *)
Texts ==
    {text \in [matches : [DirectiveKinds -> 0..8], len : LengthChoices,
               complex : BOOLEAN, dnr : BOOLEAN, donate : BOOLEAN] :
        /\ \A directive_type \in DirectiveKinds :
              text.matches[directive_type] <= medical_keywords(directive_type)
        /\ text.dnr => text.matches["DNR"] >= 1
        /\ ~text.dnr => text.matches["DNR"] <= 4
        /\ ~text.donate => text.matches["ORGAN_DONATION"] <= 6}

(* (matches as f32 / keywords.len() as f32) * 0.9 + 0.1 *)
keyword_confidence(matches, directive_type) ==
    f32_add(f32_mul(f32_div(matches * One, medical_keywords(directive_type)),
                    f32(9, 10)),
            f32(1, 10))

(* the loop of process_directive_text over the keyword table, visited in   *)
(* order                                                                   *)
RECURSIVE extract_directives(_, _)
extract_directives(text, order) ==
    IF order = <<>> THEN <<>>
    ELSE LET directive_type == Head(order)
             matches == text.matches[directive_type]
             confidence == keyword_confidence(matches, directive_type)
             rest == extract_directives(text, Tail(order))
         IN  IF matches > 0 /\ confidence >= confidence_thresholds(directive_type)
             THEN <<[directive_type |-> directive_type,
                     confidence |-> confidence]>> \o rest
             ELSE rest

(* total_confidence += confidence, from 0.0, in the order of the list *)
RECURSIVE total_confidence(_)
total_confidence(extracted_directives) ==
    IF extracted_directives = <<>> THEN 0
    ELSE LET n == Len(extracted_directives)
         IN  f32_add(total_confidence(SubSeq(extracted_directives, 1, n - 1)),
                     extracted_directives[n].confidence)

(* Tier 1 of the implementation plan *)
process_directive_text(text, order) ==
    LET extracted_directives == extract_directives(text, order)
        directive_count == Len(extracted_directives)
        overall_confidence ==
            IF directive_count > 0
            THEN f32_div(total_confidence(extracted_directives), directive_count)
            ELSE 0
        requires_review ==
            \/ f32_lt(overall_confidence, f32(85, 100))
            \/ text.len > MaxTextLength
            \/ text.complex
    IN  [confidence_score |-> overall_confidence,
         extracted_directives |-> extracted_directives,
         requires_human_review |-> requires_review,
         processing_method |-> IF requires_review THEN "HYBRID" ELSE "ON_CHAIN"]

(* Tier 1 of the architecture *)
extract_simple_patterns(text) ==
    LET dnr == IF text.dnr
               THEN <<[directive_type |-> "DNR", confidence |-> f32(95, 100)]>>
               ELSE <<>>
        organ == IF text.donate
                 THEN <<[directive_type |-> "ORGAN_DONATION",
                         confidence |-> f32(92, 100)]>>
                 ELSE <<>>
        found == dnr \o organ
        confidence == total_confidence(found)
    IN  [confidence_score |-> f32_div(confidence, Len(found)),
         extracted_directives |-> found,
         contraindications |-> <<>>,
         requires_human_review |-> f32_lt(confidence, f32(85, 100))]

(* what the placeholder of the external model answers *)
external_analysis ==
    [confidence_score |-> f32(88, 100),
     extracted_directives |-> <<>>,
     contraindications |-> <<"Requires medical review">>,
     requires_human_review |-> TRUE]

(* Tier 2 supersedes Tier 1 for the types it evaluated again and keeps the *)
(* Tier-1 candidates of the other types                                    *)
combine_analyses(simple_extraction, complex_analysis) ==
    LET again == {complex_analysis.extracted_directives[i].directive_type :
                     i \in 1..Len(complex_analysis.extracted_directives)}
        kept == SelectSeq(simple_extraction.extracted_directives,
                          LAMBDA d : d.directive_type \notin again)
    IN  [confidence_score |-> complex_analysis.confidence_score,
         extracted_directives |-> complex_analysis.extracted_directives \o kept,
         contraindications |-> simple_extraction.contraindications
                                  \o complex_analysis.contraindications,
         requires_human_review |-> complex_analysis.requires_human_review]

(* process_medical_directive of the architecture up to the await of the    *)
(* external model                                                          *)
process_medical_directive(text) ==
    /\ extraction.pc = "idle"
    /\ LET simple_extraction == extract_simple_patterns(text)
       IN  IF f32_gt(simple_extraction.confidence_score, f32(9, 10))
           THEN extraction' = [extraction EXCEPT !.pc = "done", !.text = <<text>>,
                                                 !.simple = <<simple_extraction>>,
                                                 !.res = "ok",
                                                 !.out = <<simple_extraction>>]
           ELSE extraction' = [extraction EXCEPT !.pc = "external", !.text = <<text>>,
                                                 !.simple = <<simple_extraction>>,
                                                 !.escalated = TRUE]
    /\ UNCHANGED <<managerVars, bridgeVars, networkVars, executorVars>>

(* the external model answers, or the call fails, and                      *)
(* process_medical_directive returns                                       *)
process_with_external_llm(ok) ==
    /\ extraction.pc = "external"
    /\ IF ok
       THEN extraction' = [extraction EXCEPT
                              !.pc = "done", !.reply = "ok", !.res = "ok",
                              !.out = <<combine_analyses(extraction.simple[1],
                                                         external_analysis)>>]
       ELSE extraction' = [extraction EXCEPT
                              !.pc = "done", !.reply = ErrExternal,
                              !.res = ErrExternal]
    /\ UNCHANGED <<managerVars, bridgeVars, networkVars, executorVars>>

(* process_medical_directive of the implementation plan; order is the      *)
(* order in which the HashMap of keywords is visited                       *)
process_medical_directive_on_chain(text, order) ==
    /\ extraction.pc = "idle"
    /\ LET analysis == process_directive_text(text, order)
       IN  extraction' = [extraction EXCEPT !.pc = "done", !.text = <<text>>,
                                            !.simple = <<analysis>>,
                                            !.res = "ok", !.out = <<analysis>>]
    /\ UNCHANGED <<managerVars, bridgeVars, networkVars, executorVars>>

(* the caller has its answer and the canister takes the next call *)
extraction_returned ==
    /\ extraction.pc = "done"
    /\ extraction' = NoExtraction
    /\ UNCHANGED <<managerVars, bridgeVars, networkVars, executorVars>>

NextExtractor ==
    \/ \E text \in Texts : process_medical_directive(text)
    \/ \E ok \in BOOLEAN : process_with_external_llm(ok)
    \/ \E text \in Texts : \E order \in Orders(DirectiveKinds) :
          process_medical_directive_on_chain(text, order)
    \/ extraction_returned

SpecExtractor == Init /\ [][NextExtractor]_vars

(* ------------------------------- claims -------------------------------- *)

(* the age of the record stored under key at the current time *)
AgeOf(key) == now - directives[key].created_at

(* the retention bound of the jurisdiction of the record stored under key *)
BoundOf(key) == retentionPolicies(directives[key].jurisdiction)

(* C1: emergency_lookup never returns a directive whose age exceeds the    *)
(* maximum retention of its jurisdiction; for such a record, still in the  *)
(* store because no sweep has removed it, the result is the retention      *)
(* error, and for an absent key it is the not-found error.                 *)
C1_LookupNeverReturnsExpired ==
    last.op = "emergency_lookup" =>
        /\ last.res = "ok" =>
              /\ last.key \in DOMAIN directives
              /\ AgeOf(last.key) <= BoundOf(last.key)
        /\ (last.key \in DOMAIN directives /\ AgeOf(last.key) > BoundOf(last.key))
              => (last.res = ErrExpired /\ last.out = <<>>)
        /\ last.key \notin DOMAIN directives
              => (last.res = ErrNotFound /\ last.out = <<>>)

(* an expired record is still stored and a lookup of it was just refused *)
C1_Witness ==
    /\ last.op = "emergency_lookup"
    /\ last.res = ErrExpired
    /\ last.key \in DOMAIN directives
    /\ AgeOf(last.key) > BoundOf(last.key)

(* the acceptance condition of store, as the contract states it *)
Acceptable(md) ==
    /\ md.retention_period <= retentionPolicies(md.jurisdiction)
    /\ md.legal_validity_score >= 70

C5_LookupPureRead ==
    [][last'.op = "emergency_lookup" =>
          UNCHANGED <<directives, directiveEntries, totalDirectives,
                      emergencyResponsesServed, audit>>]_vars

(* C5 amended: emergency_lookup leaves the records and the directive       *)
(* counter unchanged; it appends exactly one EMERGENCY audit entry for the *)
(* key it was asked, whatever its result, and adds one to the counter of   *)
(* responses served exactly when it returns a directive.                   *)
C5_LookupEffects ==
    [][last'.op = "emergency_lookup" =>
          /\ UNCHANGED <<directives, directiveEntries, totalDirectives>>
          /\ audit' = Append(audit, AuditEntry("EMERGENCY", last'.key))
          /\ emergencyResponsesServed' =
                emergencyResponsesServed + (IF last'.res = "ok" THEN 1 ELSE 0)]_vars

(* a lookup of an absent key was refused and left its audit entry *)
C5_Witness ==
    /\ last.op = "emergency_lookup"
    /\ last.res = ErrNotFound
    /\ Len(audit) > 0
    /\ audit[Len(audit)] = AuditEntry("EMERGENCY", last.key)
    /\ DOMAIN directives # {}

(* C6 as stated: in every state, check_erasure_eligibility returns true    *)
(* iff a record exists and its age exceeds the retention of the            *)
(* jurisdiction given, for every jurisdiction of the table.                *)
C6_EligibleEveryJurisdiction ==
    \A h \in PatientHashes : \A j \in {"US", "EU", "UK", "CA"} :
        (check_erasure_eligibility(directives, debug_show(h), j, now) = "true") <=>
            /\ debug_show(h) \in DOMAIN directives
            /\ AgeOf(debug_show(h)) > retentionPolicies(j)

(* C6 amended: check_erasure_eligibility returns true iff a record exists, *)
(* the jurisdiction given is "EU" and the age of the record exceeds the EU *)
(* retention; for every other jurisdiction it returns false whatever the   *)
(* age, and without a record it returns the not-found error; the answer    *)
(* the awaited call gave an erasure request is this value.                 *)
C6_EligibleOnlyEU ==
    /\ \A h \in PatientHashes : \A j \in CheckJurisdictions :
          LET key == debug_show(h)
              res == check_erasure_eligibility(directives, key, j, now)
          IN /\ res = "true" <=>
                   /\ key \in DOMAIN directives
                   /\ j = "EU"
                   /\ AgeOf(key) > retentionPolicies("EU")
             /\ res = ErrNotFound <=> key \notin DOMAIN directives
             /\ res \in {"true", "false", ErrNotFound}
    /\ \A call \in inflight :
          call.stage = "replied" => call.reply \in {"true", "false", ErrNotFound}

(* the check has just answered true for a stored record past the EU bound *)
C6_Witness ==
    \E call \in inflight :
       /\ call.stage = "replied"
       /\ call.reply = "true"
       /\ call.key \in DOMAIN directives
       /\ AgeOf(call.key) > retentionPolicies("EU")
       /\ AgeOf(call.key) <= retentionPolicies("US")

(* check_erasure_eligible for the record stored under key, in the          *)
(* jurisdiction of that record                                             *)
EligibleRecord(key) ==
    /\ key \in DOMAIN directives
    /\ check_erasure_eligibility(directives, key, directives[key].jurisdiction,
                                 now) = "true"

(* C7: an erasure request succeeds only when check_erasure_eligible holds  *)
(* for the patient's record; when it does not hold the request fails and   *)
(* the records and the audit log are unchanged.                            *)
C7_EraseOnlyEligible ==
    [][last'.op = "process_erasure_request" =>
          /\ last'.res = "ok" => EligibleRecord(last'.key)
          /\ ~EligibleRecord(last'.key) =>
                /\ last'.res \in {ErrNotPermitted, ErrNotFound}
                /\ UNCHANGED <<directives, audit>>]_vars

(* C8: after a successful erase the key is absent, it stays absent until a *)
(* successful store of that key, a lookup of an absent key answers not     *)
(* found, and the ERASE entry stays in the audit log in every later state. *)
C8_ErasedStaysAbsentTrailKept ==
    [][/\ (last'.op = "process_erasure_request" /\ last'.res = "ok") =>
             /\ last'.key \notin DOMAIN directives'
             /\ audit' = Append(audit, AuditEntry("ERASE", last'.key))
       /\ \A key \in (DOMAIN directives') \ (DOMAIN directives) :
             /\ last'.op = "store_directive"
             /\ last'.key = key
             /\ last'.res = "ok"
       /\ (last'.op = "emergency_lookup" /\ last'.key \notin DOMAIN directives) =>
             (last'.res = ErrNotFound /\ last'.out = <<>>)
       /\ \A i \in 1..Len(audit) :
             audit[i].kind = "ERASE" => (Len(audit') >= i /\ audit'[i] = audit[i])]_vars

(* a key was erased and a later lookup of it found nothing *)
C8_Witness ==
    /\ last.op = "emergency_lookup"
    /\ last.res = ErrNotFound
    /\ \E i \in 1..Len(audit) : audit[i] = AuditEntry("ERASE", last.key)

(* C9: the sweep removes exactly the records whose age exceeds the bound   *)
(* of their jurisdiction and leaves every other record unchanged; after it *)
(* no such record is left, and a second sweep at the same time changes     *)
(* neither the records nor the audit log.                                  *)
C9_SweepExactIdempotent ==
    [][last'.op = "heartbeat" =>
          /\ DOMAIN directives' =
                {key \in DOMAIN directives : AgeOf(key) <= BoundOf(key)}
          /\ \A key \in DOMAIN directives' : directives'[key] = directives[key]
          /\ \A key \in DOMAIN directives' :
                now' - directives'[key].created_at <= retentionPolicies(directives'[key].jurisdiction)
          /\ (last.op = "heartbeat" /\ now' = now) => UNCHANGED <<directives, audit>>]_vars

(* a sweep removed an expired record and kept another one *)
C9_Witness ==
    /\ last.op = "heartbeat"
    /\ Len(audit) > 0
    /\ audit[Len(audit)].kind = "EXPIRED"
    /\ DOMAIN directives # {}

(* C10: a lookup made right after a successful store of the same key, with *)
(* no time elapsed, returns the record with age 0.                         *)
C10_FreshRecordHasAgeZero ==
    [][(/\ last.op = "store_directive"
        /\ last.res = "ok"
        /\ last'.op = "emergency_lookup"
        /\ last'.key = last.key
        /\ now' = now) =>
          (last'.res = "ok" /\ last'.age = 0)]_vars

(* the steps a request may have passed, in order *)
Stages == <<"RECEIVED", "AUTHENTICATED", "RESOLVED", "LOGGED">>

(* trace is a start of the stages, or such a start ended by REJECTED *)
AlongStages(trace) ==
    /\ Len(trace) >= 1
    /\ \/ /\ Len(trace) <= Len(Stages)
          /\ \A i \in 1..Len(trace) : trace[i] = Stages[i]
       \/ /\ Len(trace) <= Len(Stages)
          /\ trace[Len(trace)] = "REJECTED"
          /\ \A i \in 1..(Len(trace) - 1) : trace[i] = Stages[i]

(* C11: the store is read only after the signing collaborator has produced *)
(* the signature that authenticates the request; a request whose signing   *)
(* failed ends REJECTED with AuthenticationFailed, and no directive is     *)
(* read or returned for it.                                                *)
C11_AuthenticationGates ==
    /\ \A check \in checks :
          check.pc \in {"fetching", "fetched", "analyzing", "alerting"}
             => check.verified
    /\ (response # NoResponse /\ ~response.verified) =>
          /\ response.res = "AuthenticationFailed"
          /\ response.trace[Len(response.trace)] = "REJECTED"
          /\ response.entries = 0
          /\ response.out = <<>>

(* C12: a request moves only along RECEIVED, AUTHENTICATED, RESOLVED,      *)
(* LOGGED, so RESOLVED is never reached without AUTHENTICATED; REJECTED is *)
(* terminal; an authenticated request for an absent record ends REJECTED   *)
(* with the not-found error and one for an expired record ends REJECTED    *)
(* with the retention error.                                               *)
C12_RequestStateMachine ==
    /\ [](/\ \A check \in checks :
               AlongStages(check.trace) /\ check.trace[Len(check.trace)] # "REJECTED"
          /\ response # NoResponse => AlongStages(response.trace))
    /\ [][\A check \in checks :
            (check.pc = "fetched" /\ check.verified
               /\ check.reply \in {ErrNotFound, ErrExpired}
               /\ check \notin checks') =>
                (/\ response'.res = check.reply
                 /\ response'.trace[Len(response'.trace)] = "REJECTED")]_vars

(* C13: a call of emergency_check that passed authentication has appended  *)
(* exactly one EMERGENCY audit entry when it returns, whatever it returns. *)
C13_OneAuditEntryPerCall ==
    (response # NoResponse /\ response.verified) => response.entries = 1

(* C14: no emergency_check runs an extraction or an AI analysis between    *)
(* its reception and its response.                                         *)
C14_NoAnalysisInline ==
    /\ \A check \in checks : check.pc # "analyzing" /\ ~check.analysed
    /\ ~response.analysed

(* the matches of s whose key is k, in the order of s *)
WithKey(s, k) ==
    LET HasKey(m) == sort_key(m) = k
    IN SelectSeq(s, HasKey)

Notifications(patient_id, recipient_id, ack) ==
    {i \in 1..Len(executor.notifications) :
        executor.notifications[i] = [patient |-> patient_id,
                                     recipient_id |-> recipient_id,
                                     ack |-> ack]}

(* the recipients a run can select *)
Recipients == {FoundMatches[i].recipient_id : i \in 1..Len(FoundMatches)}

(* C15: execute is idempotent for a patient's death event: over all calls  *)
(* for it every recipient is notified with success at most once, no data   *)
(* release is repeated, and a later call returns the record of the first   *)
(* one instead of a new one.                                               *)
C15_ExecuteIdempotent ==
    \A patient_id \in ExecutedPatients :
       /\ \A recipient_id \in Recipients :
             Cardinality(Notifications(patient_id, recipient_id, TRUE)) <= 1
       /\ Cardinality({i \in 1..Len(executor.releases) :
                          executor.releases[i] = patient_id}) <= 1
       /\ \A i, j \in 1..Len(executor.records) :
             (/\ executor.records[i].patient_id = patient_id
              /\ executor.records[j].patient_id = patient_id) => i = j
       /\ (executed.patient = patient_id /\ executed.res = "ok") =>
             \E i \in 1..Len(executor.records) :
                /\ executor.records[i] = executed.record[1]
                /\ \A j \in 1..(i - 1) :
                      executor.records[j].patient_id # patient_id

(* C16: a match is reported as notified only after its notification was    *)
(* acknowledged; a recipient whose notification failed is tried a bounded  *)
(* number of times and still appears in the execution record.              *)
C16_NotifiedOnlyAfterAck ==
    executed # NoExecution =>
       /\ executed.record # <<>> =>
             \A i \in 1..Len(executed.record[1].recipient_matches) :
                Notifications(executed.patient,
                              executed.record[1].recipient_matches[i].recipient_id,
                              TRUE) # {}
       /\ \A recipient_id \in Recipients :
             Cardinality(Notifications(executed.patient, recipient_id, FALSE))
                <= executor.started
       /\ \A i \in 1..Len(executed.recipient_matches) :
             /\ executed.record # <<>>
             /\ \E j \in 1..Len(executed.record[1].recipient_matches) :
                   executed.record[1].recipient_matches[j] =
                      executed.recipient_matches[i]

(* C17: a failed notification does not fail the request: the call still    *)
(* returns an execution record, persists it, and has processed the data    *)
(* consent of the patient.                                                 *)
C17_PartialFailure ==
    executed # NoExecution =>
       /\ executed.res = "ok"
       /\ executed.record # <<>>
       /\ \E i \in 1..Len(executor.records) :
             executor.records[i] = executed.record[1]
       /\ executed.research_data_consent =>
             \E i \in 1..Len(executor.releases) :
                executor.releases[i] = executed.patient

(* the analysis Tier 1 has made of the text being processed *)
Tier1 == extraction.simple[1]

(* C19: when the escalation to Tier 2 fails, extraction does not fail: it  *)
(* returns the Tier-1 output, candidates and scores unchanged, with        *)
(* requires_human_review true.                                             *)
C19_ExternalFailureFallsBack ==
    (extraction.pc = "done" /\ extraction.reply = ErrExternal) =>
       /\ extraction.res = "ok"
       /\ extraction.out = <<[Tier1 EXCEPT !.requires_human_review = TRUE]>>

(* C20: requires_human_review is true exactly when the aggregate           *)
(* confidence of the accepted candidates is below the global threshold, or *)
(* the text is longer than the length bound, or it contains a complex      *)
(* medical term; and the request is escalated to Tier 2 exactly when       *)
(* requires_human_review is true.                                          *)
C20_EscalationGate ==
    extraction.simple # <<>> =>
       LET text == extraction.text[1]
           below == \/ Tier1.extracted_directives = <<>>
                    \/ f32_lt(Tier1.confidence_score, f32(85, 100))
       IN  /\ Tier1.requires_human_review <=>
                (below \/ text.len > MaxTextLength \/ text.complex)
           /\ extraction.escalated <=> Tier1.requires_human_review

(* the acceptance threshold of a directive type in hundredths *)
ThresholdPercent(directive_type) ==
    CASE directive_type = "DNR" -> 85
      [] directive_type = "ORGAN_DONATION" -> 80
      [] directive_type = "DATA_CONSENT" -> 75

(* the candidates of the analysis of the given type *)
Candidates(analysis, directive_type) ==
    {i \in 1..Len(analysis.extracted_directives) :
        analysis.extracted_directives[i].directive_type = directive_type}

(* C21: the Tier-1 confidence of a type with m of its n phrases matched is *)
(* (m / n) * 0.9 + 0.1; the type is a candidate exactly when that value is *)
(* at least the threshold of the type (0.85, 0.80, 0.75), and the          *)
(* confidence of every candidate lies in [0.1, 1.0].  The confidence is    *)
(* compared in units of 2^-20, to one unit.                                *)
C21_ConfidenceAndThreshold ==
    (extraction.simple # <<>> /\ "processing_method" \in DOMAIN Tier1) =>
       \A directive_type \in DirectiveKinds :
          LET m == extraction.text[1].matches[directive_type]
              n == medical_keywords(directive_type)
              exact == ((9 * m + n) * 1048576) \div (10 * n)
          IN  /\ Candidates(Tier1, directive_type) # {} <=>
                    (m >= 1 /\ 90 * m + 10 * n >= ThresholdPercent(directive_type) * n)
              /\ \A i \in Candidates(Tier1, directive_type) :
                    LET confidence == Tier1.extracted_directives[i].confidence
                    IN  /\ confidence >= f32(1, 10)
                        /\ confidence <= One
                        /\ confidence \div 128 - exact \in {-1, 0, 1}

(* C22: the Tier-1 extractor is deterministic: another call with the same  *)
(* text returns the same ordered candidates, the same confidence and the   *)
(* same requires_human_review, in whatever order the keyword table is      *)
(* visited.                                                                *)
C22_ExtractorDeterministic ==
    (extraction.simple # <<>> /\ "processing_method" \in DOMAIN Tier1) =>
       \A order \in Orders(DirectiveKinds) :
          process_directive_text(extraction.text[1], order) = Tier1

(* what a process_erasure_request that runs alone at time t leaves of m *)
ErasedAlone(m, key, t) ==
    IF /\ key \in DOMAIN m
       /\ check_erasure_eligibility(m, key, m[key].jurisdiction, t) = "true"
    THEN MapDelete(m, key)
    ELSE m

(* C23: writes on one patient key are serialized: when an erase returns,   *)
(* the store is the one that some order of the erase and the stores on the *)
(* key, each run alone, leaves; an erase that succeeds has removed what an *)
(* erase run alone on the records now stored removes, and never a record   *)
(* stored after it evaluated eligibility on an older one; an erase that    *)
(* fails leaves the store as it is.                                        *)
C23_WritesSerialized ==
    [][last'.op = "process_erasure_request" =>
          IF last'.res = "ok"
          THEN directives' = ErasedAlone(directives, last'.key, now)
          ELSE directives' = directives]_vars

(* the patient of the key holds a stored directive of the type *)
HoldsType(m, key, ty) == key \in DOMAIN m /\ m[key].directive_type = ty

(* C24: a patient holds one active record per directive type: a store of a *)
(* directive of one type leaves the stored directives of the patient of    *)
(* every other type in place, where a fetch of all directives of the       *)
(* patient finds them.                                                     *)
C24_OneRecordPerType ==
    [][(last'.op = "store_directive" /\ last'.res = "ok") =>
          \A ty \in {"DNR", "ORGAN_DONATION", "DATA_CONSENT"} :
             (ty # last'.out[1].directive_type /\ HoldsType(directives, last'.key, ty))
                => HoldsType(directives', last'.key, ty)]_vars

C26_DnrScenario ==
    (/\ last.op = "emergency_lookup"
     /\ last.key \in DOMAIN directives
     /\ directives[last.key].directive_type = "DNR"
     /\ directives[last.key].jurisdiction = "US"
     /\ now - directives[last.key].created_at <= retentionPolicies("US")) =>
       /\ last.res = "ok"
       /\ last.out # <<>>
       /\ last.out[1].directive_type = "DNR"
       /\ \E i \in 1..Len(last.out[1].emergency_conditions) :
             last.out[1].emergency_conditions[i] = "No resuscitation"
       /\ last.out[1].confidence_score >= 85

(* the records that differ from d in the fields that hold or point to the  *)
(* stored content only                                                     *)
HiddenVariants(d) ==
    {[d EXCEPT !.directive_content_hash = content, !.off_chain_reference = reference,
               !.signature = sig, !.patient_id_hash = h] :
        content \in {<<170>>, <<171>>}, reference \in {"ref", "ref2"},
        sig \in {<<187>>, <<188>>}, h \in PatientHashes}

(* C27: the emergency response reveals no stored content: had the record   *)
(* of the key differed in directive_content_hash, off_chain_reference,     *)
(* signature or patient_id_hash, emergency_lookup at the same time would   *)
(* have returned the same result and the same EmergencyDirective.          *)
C27_ResponseRevealsNoContent ==
    (last.op = "emergency_lookup" /\ last.key \in DOMAIN directives) =>
       \A v \in HiddenVariants(directives[last.key]) :
          /\ lookup_result(v, now) = last.res
          /\ last.res = "ok" => last.out = <<EmergencyDirective(v, now)>>

(* a lookup has returned the directive of a stored record *)
C27_Witness ==
    /\ last.op = "emergency_lookup"
    /\ last.res = "ok"
    /\ last.key \in DOMAIN directives
    /\ last.out = <<EmergencyDirective(directives[last.key], now)>>
    /\ emergencyResponsesServed >= 1

(* C28: no record outlives its own retention_period: a lookup returns no   *)
(* record older than the retention_period it was stored with, and after a  *)
(* sweep no such record is left, also when that period is shorter than the *)
(* maximum of the jurisdiction.                                            *)
C28_OwnRetentionRespected ==
    /\ (last.op = "emergency_lookup" /\ last.res = "ok") =>
          last.age <= directives[last.key].retention_period
    /\ last.op = "heartbeat" =>
          \A key \in DOMAIN directives :
             now - directives[key].created_at <= directives[key].retention_period

(* C29: in the ranking register_organ_availability returns, of two         *)
(* candidates with equal compatibility_score the one of the more urgent    *)
(* tier (the lower urgency_level) is never placed after the less urgent.   *)
C29_MoreUrgentFirst ==
    ranking.returned =>
       \A i, j \in 1..Len(ranking.sorted) :
          (/\ i < j
           /\ ranking.sorted[i].compatibility_score
                 = ranking.sorted[j].compatibility_score) =>
             ranking.sorted[i].urgency_level <= ranking.sorted[j].urgency_level

(* the record of the key is older than the retention of its jurisdiction *)
Expired(key) ==
    /\ key \in DOMAIN directives
    /\ now - directives[key].created_at > maxRetention(directives[key])

====
